---- MODULE Spec2Model ----
(***************************************************************************)
(* Budget-Tool: the financial ingestion and projection engine.             *)
(*                                                                         *)
(*   months_to_payoff            src/budget_tool.py 856-882                *)
(*   find_recurring_expenses     src/budget_tool.py 133-182                *)
(*   add_one_time_expense        src/budget_tool.py 701-718                *)
(*   auto_scan                   src/webapp.py      308-329                *)
(*   account_balance_after_months   src/budget_tool.py 414-428             *)
(*   parse_statement_csv         src/budget_tool.py 49-130                 *)
(*   forecast_accounts, show_totals  src/budget_tool.py 1120-1211          *)
(*   get_account_forecast        src/webapp.py      183-209                *)
(*   months_until_bank_negative  src/budget_tool.py 431-439                *)
(*   update_accounts_route       src/webapp.py      423-463                *)
(*   set_account, delete_account src/budget_tool.py 487-535                *)
(*   set_subscription, can_generate_transactions,                          *)
(*   generate_transactions_from_plaid   src/budget_tool.py 775-853         *)
(*   add_category, delete_category, set_goal, add_transaction              *)
(*                   src/budget_tool.py 346-356, 442-457, 917-937, 1030-   *)
(*                                                                         *)
(* Money is a Python float in the source.  The amortization part carries   *)
(* it in fixed point, Scale sub-units to the currency unit (a power of     *)
(* two, so that every input drawn below is an exact double); a product     *)
(* with the monthly rate is rounded up to the next sub-unit, so that the   *)
(* interest on a positive balance is positive, as it is in the source. The *)
(* detector part only adds, subtracts and compares amounts, so it carries  *)
(* whole currency units and keeps the mean as a fraction.                  *)
(***************************************************************************)
EXTENDS Integers, Sequences, FiniteSets, TLC

VARIABLES
    args,           \* the arguments of the current months_to_payoff call
    ret,            \* its return value, [none, months]
    pc,             \* "call" before the function ran, "return" after
    statements,     \* find_recurring_expenses: the periods, oldest first
    tolerance,      \* its tolerance, a fraction [num, den]
    day_window,     \* its day_window
    recurring,      \* the list it returns
    upload,             \* auto_scan: the parsed statements of the posted files
    monthly_expenses,   \* table monthly_expenses
    one_time_expenses,  \* table one_time_expenses, in id order
    response,           \* the last auto_scan request: "none", "ok", "error"
    added,              \* the arguments of the last direct call of
                        \* add_one_time_expense, <<>> before the first
    horizon,        \* account_balance_after_months: its argument months
    future,         \* the balance it returns
    csv_rows,       \* parse_statement_csv: the rows csv.reader yields
    parsed,         \* its outcome, [raised, records]
    accounts,       \* table accounts: a function from the names stored
    transactions,   \* table transactions of the default user
    categories,     \* table categories: the names stored
    goals,          \* table goals: rows [category, user, amount]
    last_delete,    \* the last call of delete_category, [name, raised]
    cli_forecast,   \* what the last forecast_accounts printed
    totals_shown,   \* what the last show_totals printed
    web_forecast,   \* what the last get_account_forecast returned
    subscriptions,  \* table subscriptions: a row for each user
    now,            \* datetime.utcnow(), in half days
    last_call,      \* the last call of the subscription functions
    callers,        \* two concurrent generate_transactions_from_plaid calls
    form            \* the form posted to /update-accounts

payoffVars == <<args, ret>>
recurringVars == <<statements, tolerance, day_window, recurring>>
scanVars == <<upload, monthly_expenses, one_time_expenses, response, added>>
projectionVars == <<horizon, future>>
\* the variables of the parts that follow the web application's scan
parseVars == <<csv_rows, parsed>>
ledgerVars == <<accounts, transactions, categories, goals, last_delete>>
forecastVars == <<cli_forecast, totals_shown, web_forecast>>
subscriptionVars == <<subscriptions, now, last_call, callers>>
laterVars == <<projectionVars, parseVars, ledgerVars, forecastVars,
               subscriptionVars, form>>
vars == <<args, ret, pc, statements, tolerance, day_window, recurring,
          upload, monthly_expenses, one_time_expenses, response, added,
          laterVars>>

Abs(x) == IF x < 0 THEN -x ELSE x

(***************************************************************************)
(* Numbers.                                                                *)
(***************************************************************************)
\* sub-units per currency unit: 2^16
Scale == 65536
Half == Scale \div 2
\* apr is given in percent; the model carries it in 1/AprDen percent
AprDen == 100
\* the loop's iteration cap
MaxMonths == 10000

\* bound of the small amounts drawn, in halves of a currency unit
MaxHalves == 4

\* ceiling(a * n / d) for a >= 0, n >= 0, d > 0, without a wide product
MulDiv(a, n, d) == (a \div d) * n + ((a % d) * n + d - 1) \div d

(***************************************************************************)
(* months_to_payoff                                                        *)
(***************************************************************************)
NoneResult == [none |-> TRUE, months |-> 0]
Months(m) == [none |-> FALSE, months |-> m]

\* the whole payment taken as principal, escrow, insurance and tax included
PrincipalPayment_gross(a) == a.payment

\* principal_payment = payment - escrow - insurance - tax
PrincipalPayment(a) == a.payment - a.escrow - a.insurance - a.tax

\* interest = balance * r, r = apr / 12 / 100
Interest(balance, apr) ==
    LET mag == MulDiv(Abs(balance), Abs(apr), 12 * 100 * AprDen)
    IN IF (balance < 0) = (apr < 0) THEN mag ELSE -mag

\* the while condition: balance > 0 and months < 10000
LoopRuns(s) == ~s.returned /\ s.balance > 0 /\ s.months < MaxMonths

\* one pass of the loop body that leaves only when the balance has grown
LoopBody_grown(s, pp, apr) ==
    IF ~LoopRuns(s) THEN s
    ELSE LET balance == s.balance + Interest(s.balance, apr) - pp
             months == s.months + 1
         IN IF balance > s.prev
            THEN [s EXCEPT !.balance = balance, !.months = months,
                           !.returned = TRUE]
            ELSE [s EXCEPT !.balance = balance, !.months = months,
                           !.prev = balance]

\* one pass of the loop body; a state the loop has left is kept
LoopBody(s, pp, apr) ==
    IF ~LoopRuns(s) THEN s
    ELSE LET balance == s.balance + Interest(s.balance, apr) - pp
             months == s.months + 1
         IN IF balance >= s.prev
            THEN [s EXCEPT !.balance = balance, !.months = months,
                           !.returned = TRUE]
            ELSE [s EXCEPT !.balance = balance, !.months = months,
                           !.prev = balance]

\* n passes of the loop, halving n so that the evaluation stays shallow
RECURSIVE Loop(_, _, _, _)
Loop(s, pp, apr, n) ==
    IF n = 0 \/ ~LoopRuns(s) THEN s
    ELSE IF n = 1 THEN LoopBody(s, pp, apr)
    ELSE LET h == n \div 2
             mid == Loop(s, pp, apr, h)
         IN Loop(mid, pp, apr, n - h)

\* the linear branch: int((balance + principal_payment - 1) // principal_payment)
\* (one currency unit is Scale sub-units; // is the floor division)
LinearMonths(balance, pp) == (balance + pp - Scale) \div pp

\* months_to_payoff with an early "nothing owed: 0 months" ahead of the
\* principal_payment guard
months_to_payoff_zero_first(a) ==
    LET balance == Abs(a.balance)
        pp == PrincipalPayment(a)
    IN IF balance = 0 THEN Months(0)
       ELSE IF pp <= 0 THEN NoneResult
       ELSE IF a.apr <= 0 THEN Months(LinearMonths(balance, pp))
       ELSE LET s0 == [balance |-> balance, months |-> 0, prev |-> balance,
                       returned |-> FALSE]
                end == Loop(s0, pp, a.apr, MaxMonths)
            IN IF end.returned THEN NoneResult ELSE Months(end.months)

months_to_payoff(a) ==
    LET balance == Abs(a.balance)
        pp == PrincipalPayment(a)
    IN IF pp <= 0 THEN NoneResult
       ELSE IF a.apr <= 0 THEN Months(LinearMonths(balance, pp))
       ELSE LET s0 == [balance |-> balance, months |-> 0, prev |-> balance,
                       returned |-> FALSE]
                end == Loop(s0, pp, a.apr, MaxMonths)
            IN IF end.returned THEN NoneResult ELSE Months(end.months)

(***************************************************************************)
(* account_balance_after_months: exactly `months` passes of                *)
(* balance = balance * (1 + rate) - principal_payment                      *)
(***************************************************************************)
\* the projection with a loop that stops once the balance is paid off
RECURSIVE account_balance_after_months_until_paid(_, _, _, _)
account_balance_after_months_until_paid(balance, pp, apr, months) ==
    IF months <= 0 \/ balance <= 0 THEN balance
    ELSE account_balance_after_months_until_paid(
             balance + Interest(balance, apr) - pp, pp, apr, months - 1)

RECURSIVE account_balance_after_months(_, _, _, _)
account_balance_after_months(balance, pp, apr, months) ==
    IF months <= 0 THEN balance
    ELSE IF months = 1 THEN balance + Interest(balance, apr) - pp
    ELSE LET h == months \div 2
             mid == account_balance_after_months(balance, pp, apr, h)
         IN \* the test evaluates mid before the second half starts
            IF mid \in Int
            THEN account_balance_after_months(mid, pp, apr, months - h)
            ELSE mid

(***************************************************************************)
(* The calls of months_to_payoff that are explored.                         *)
(***************************************************************************)
SmallAmounts == {k * Half : k \in 0..MaxHalves}
Balances == SmallAmounts \cup {-k * Half : k \in 1..MaxHalves}
              \cup {30 * Scale, 1000 * Scale, 20000 * Scale}
Payments == SmallAmounts \cup {100 * Scale}
\* -1 %, 0 %, 0.01 %, 20 %
Aprs == {-AprDen, 0, 1, 20 * AprDen}

PayoffArgs ==
    [balance : Balances, payment : Payments, apr : Aprs,
     escrow : {0, Half}, insurance : {0, Half}, tax : {0, Scale}]

\* the detector's variables while the amortization engine runs
RecurringIdle ==
    /\ statements = <<>>
    /\ tolerance = [num |-> 1, den |-> 10]
    /\ day_window = 0
    /\ recurring = <<>>

\* the web application's variables while a pure function runs
ScanIdle ==
    /\ upload = <<>>
    /\ monthly_expenses = {}
    /\ one_time_expenses = <<>>
    /\ response = "none"
    /\ added = <<>>

\* the projection's variables while another function runs
ProjectionIdle ==
    /\ horizon = 0
    /\ future = 0

\* the parser's variables while another function runs
ParseIdle ==
    /\ csv_rows = <<>>
    /\ parsed = [raised |-> "none", records |-> <<>>]

\* the tables before a row is stored
NoDelete == [name |-> "", raised |-> "none"]
NoGoals ==
    /\ goals = {}
    /\ last_delete = NoDelete

LedgerIdle ==
    /\ accounts = <<>>
    /\ transactions = <<>>
    /\ categories = {}
    /\ NoGoals

\* a forecast not asked for yet
NoForecast == [called |-> FALSE, assets |-> <<>>, debts |-> <<>>]
NoTotals == [called |-> FALSE, warn |-> NoneResult, lines |-> <<>>]

\* the forecasts before one is asked for
ForecastIdle ==
    /\ cli_forecast = NoForecast
    /\ totals_shown = NoTotals
    /\ web_forecast = NoForecast

\* the users of the users table
Users == {"default", "alice"}

\* a user without a row in subscriptions; last_sync is NULL until a sync
NoRow == [stored |-> FALSE, tier |-> "free", start_date |-> 0,
          synced |-> FALSE, last_sync |-> 0]
NoCall == [op |-> "none", user |-> "default", at |-> 0, before |-> NoRow,
           after |-> NoRow, result |-> "none"]

\* the processes that call generate_transactions_from_plaid at a time, and
\* a call that has not started
Callers == {1, 2}
NoCaller == [pc |-> "start", result |-> "pending", at |-> 0]

\* the subscriptions table after init_db
SubscriptionIdle ==
    /\ subscriptions = [u \in Users |-> NoRow]
    /\ now = 0
    /\ last_call = NoCall
    /\ callers = [c \in Callers |-> NoCaller]

\* no form posted
NoForm == [deletes |-> {}, rows |-> <<>>]
FormIdle == form = NoForm

LaterIdle ==
    /\ ProjectionIdle /\ ParseIdle /\ LedgerIdle /\ ForecastIdle
    /\ SubscriptionIdle /\ FormIdle

InitPayoff ==
    /\ args \in PayoffArgs
    /\ ret = NoneResult
    /\ pc = "call"
    /\ RecurringIdle
    /\ ScanIdle
    /\ LaterIdle

MonthsToPayoff ==
    /\ pc = "call"
    /\ ret' = months_to_payoff(args)
    /\ pc' = "return"
    /\ UNCHANGED <<args, recurringVars, scanVars, laterVars>>

NextPayoff == MonthsToPayoff

SpecPayoff == InitPayoff /\ [][NextPayoff]_vars

(***************************************************************************)
(* Claims about months_to_payoff.                                          *)
(***************************************************************************)
\* ceiling(a / b) for b > 0
Ceiling(a, b) == -((-a) \div b)

Returned == pc = "return"

\* C1: with principal_payment > 0 and apr <= 0, months_to_payoff returns
\* exactly ceiling(|balance| / principal_payment), for integer and
\* non-integer amounts alike.
C1_LinearIsCeiling ==
    (Returned /\ PrincipalPayment(args) > 0 /\ args.apr <= 0)
        => ret = Months(Ceiling(Abs(args.balance), PrincipalPayment(args)))

\* C2: a number m returned for apr > 0 is a real payoff: m monthly steps
\* balance <- balance + balance * r - principal_payment from |balance|
\* end at a balance <= 0, for every input.
C2_ReturnedMonthsPayOff ==
    (Returned /\ args.apr > 0 /\ ~ret.none)
        => account_balance_after_months(Abs(args.balance),
               PrincipalPayment(args), args.apr, ret.months) <= 0

\* C3: with principal_payment <= 0 months_to_payoff returns None, whatever
\* the balance (positive, zero, negative) and the apr.
C3_NoPrincipalIsNever ==
    (Returned /\ PrincipalPayment(args) <= 0) => ret = NoneResult

\* C3's case: principal_payment <= 0 with nothing owed and interest running
C3_Witness ==
    /\ Returned
    /\ PrincipalPayment(args) < 0
    /\ args.balance = 0
    /\ args.apr > 0
    /\ ret = NoneResult

(***************************************************************************)
(* TransactionRecord, and the parts of str and datetime the detector uses. *)
(***************************************************************************)
NoCategory == "None"

TransactionRecord(month, day, hour, description, amount) ==
    [date |-> [month |-> month, day |-> day, hour |-> hour],
     description |-> description, amount |-> amount, category |-> NoCategory]

\* str.lower() on the descriptions that occur
lower(d) ==
    CASE d \in {"Gym", "GYM", "gym"} -> "gym"
      [] d \in {"Tea", "TEA", "tea"} -> "tea"
      [] d \in {"Coffee", "coffee"} -> "coffee"
      [] OTHER -> d

\* sum(amounts)
RECURSIVE Sum(_)
Sum(amounts) ==
    IF amounts = <<>> THEN 0 ELSE Head(amounts) + Sum(Tail(amounts))

\* avg = sum(amounts) / len(amounts), kept as a fraction
Mean(amounts) == [num |-> Sum(amounts), den |-> Len(amounts)]

\* the amount of a candidate without the abs()
ReportedAmount_signed(amounts) == Mean(amounts)

\* abs(avg)
ReportedAmount(amounts) ==
    [num |-> Abs(Mean(amounts).num), den |-> Mean(amounts).den]

\* the match condition compared on magnitudes instead of signed amounts
Matches_magnitude(r, base, tol, win) ==
    /\ lower(r.description) = lower(base.description)
    /\ Abs(r.date.day - base.date.day) <= win
    /\ Abs(Abs(r.amount) - Abs(base.amount)) * tol.den
           <= Abs(base.amount) * tol.num

\* the match condition with the day window's bound left out
Matches_strict_day(r, base, tol, win) ==
    /\ lower(r.description) = lower(base.description)
    /\ Abs(r.date.day - base.date.day) < win
    /\ Abs(r.amount - base.amount) * tol.den <= Abs(base.amount) * tol.num

\* the three conditions of the inner if
Matches(r, base, tol, win) ==
    /\ lower(r.description) = lower(base.description)
    /\ Abs(r.date.day - base.date.day) <= win
    /\ Abs(r.amount - base.amount) * tol.den <= Abs(base.amount) * tol.num

\* the inner loop without its break: the index of the last match
FirstMatch_last(other, base, tol, win) ==
    LET hits == {j \in 1..Len(other) : Matches(other[j], base, tol, win)}
    IN IF hits = {} THEN 0
       ELSE CHOOSE j \in hits : \A k \in hits : j >= k

\* for r in other: ... break -- the index of the first match, 0 for none
FirstMatch(other, base, tol, win) ==
    LET hits == {j \in 1..Len(other) : Matches(other[j], base, tol, win)}
    IN IF hits = {} THEN 0
       ELSE CHOOSE j \in hits : \A k \in hits : j <= k

\* the sweep that passes over a period without a match instead of stopping
RECURSIVE Sweep_skip_missing(_, _, _, _, _)
Sweep_skip_missing(base, others, tol, win, amounts) ==
    IF others = <<>> THEN [complete |-> TRUE, amounts |-> amounts]
    ELSE LET j == FirstMatch(Head(others), base, tol, win)
         IN IF j = 0
            THEN Sweep_skip_missing(base, Tail(others), tol, win,
                                    Append(amounts, base.amount))
            ELSE Sweep_skip_missing(base, Tail(others), tol, win,
                                    Append(amounts, Head(others)[j].amount))

\* for other in statements[1:]: the amounts gathered, and whether the loop
\* ran to its else branch
RECURSIVE Sweep(_, _, _, _, _)
Sweep(base, others, tol, win, amounts) ==
    IF others = <<>> THEN [complete |-> TRUE, amounts |-> amounts]
    ELSE LET j == FirstMatch(Head(others), base, tol, win)
         IN IF j = 0 THEN [complete |-> FALSE, amounts |-> amounts]
            ELSE Sweep(base, Tail(others), tol, win,
                       Append(amounts, Head(others)[j].amount))

\* for base in first_month, from its i-th transaction on
RECURSIVE Anchors(_, _, _, _, _, _, _)
Anchors(first_month, i, seen, found, others, tol, win) ==
    IF i > Len(first_month) THEN found
    ELSE LET base == first_month[i]
             key == <<lower(base.description), base.date.day>>
         IN IF key \in seen
            THEN Anchors(first_month, i + 1, seen, found, others, tol, win)
            ELSE LET sw == Sweep(base, others, tol, win, <<base.amount>>)
                     hit == [description |-> base.description,
                             amount |-> ReportedAmount(sw.amounts),
                             category |-> base.category]
                 IN Anchors(first_month, i + 1, seen \cup {key},
                            IF sw.complete THEN Append(found, hit) ELSE found,
                            others, tol, win)

find_recurring_expenses(stmts, tol, win) ==
    IF stmts = <<>> THEN <<>>
    ELSE Anchors(Head(stmts), 1, {}, <<>>, Tail(stmts), tol, win)

\* the defaults of the signature
DefaultTolerance == [num |-> 1, den |-> 10]
DefaultDayWindow == 0

(***************************************************************************)
(* The calls of find_recurring_expenses that are explored.                  *)
(***************************************************************************)
\* the periods of one call, and the transactions of all its periods together
MaxPeriods == 2
MaxRows == 3

DetectorTx ==
    { TransactionRecord(1, 20, 0, "Gym", 30),
      TransactionRecord(1, 21, 0, "GYM", -30),
      TransactionRecord(1, 21, 0, "Gym", 29),
      TransactionRecord(1, 20, 0, "Tea", 30) }

SeqsUpTo(S, n) == UNION {[1..k -> S] : k \in 0..n}

\* the lists of n periods over the transactions S with at most k rows in all
RECURSIVE PeriodLists(_, _, _)
PeriodLists(S, n, k) ==
    IF n = 0 THEN {<<>>}
    ELSE UNION { {<<first>> \o rest : rest \in PeriodLists(S, n - 1, k - Len(first))}
                 : first \in SeqsUpTo(S, k) }

DetectorStatements ==
    UNION {PeriodLists(DetectorTx, n, MaxRows) : n \in 0..MaxPeriods}

\* (tolerance, day_window): exact, the defaults, a wider window, 200 %
DetectorSettings ==
    { <<[num |-> 0, den |-> 1], DefaultDayWindow>>,
      <<DefaultTolerance, DefaultDayWindow>>,
      <<DefaultTolerance, 1>>,
      <<[num |-> 2, den |-> 1], 1>> }

\* the amortization variables while the detector runs
PayoffIdle ==
    /\ args = [balance |-> 0, payment |-> 0, apr |-> 0,
               escrow |-> 0, insurance |-> 0, tax |-> 0]
    /\ ret = NoneResult

InitRecurring ==
    /\ statements \in DetectorStatements
    /\ \E st \in DetectorSettings : tolerance = st[1] /\ day_window = st[2]
    /\ recurring = <<>>
    /\ pc = "call"
    /\ PayoffIdle
    /\ ScanIdle
    /\ LaterIdle

FindRecurringExpenses ==
    /\ pc = "call"
    /\ recurring' = find_recurring_expenses(statements, tolerance, day_window)
    /\ pc' = "return"
    /\ UNCHANGED <<statements, tolerance, day_window, payoffVars, scanVars,
                   laterVars>>

NextRecurring == FindRecurringExpenses

SpecRecurring == InitRecurring /\ [][NextRecurring]_vars

(***************************************************************************)
(* add_one_time_expense and table one_time_expenses                        *)
(*   id INTEGER PRIMARY KEY AUTOINCREMENT, description, amount,            *)
(*   created_at TEXT, UNIQUE(description, created_at)                      *)
(* The rows are kept in the order of their ids; the id itself, which no    *)
(* operation modelled here reads, is left out.                             *)
(***************************************************************************)
\* created_at.date().isoformat(), and substr(created_at, 1, 10) of a stored
\* created_at.isoformat(): the timestamp without its time of day
DatePart(created_at) == [month |-> created_at.month, day |-> created_at.day]

\* SELECT 1 FROM one_time_expenses WHERE description=? AND amount=?
\*   AND substr(created_at,1,10)=?
RowExists(rows, desc, amount, date_part) ==
    \E k \in 1..Len(rows) :
        /\ rows[k].description = desc
        /\ rows[k].amount = amount
        /\ DatePart(rows[k].created_at) = date_part

\* the UNIQUE(description, created_at) constraint refuses the row
UniqueConflict(rows, desc, created_at) ==
    \E k \in 1..Len(rows) :
        /\ rows[k].description = desc
        /\ rows[k].created_at = created_at

\* INSERT OR IGNORE INTO one_time_expenses(description, amount, created_at)
InsertOrIgnore(rows, desc, amount, created_at) ==
    IF UniqueConflict(rows, desc, created_at) THEN rows
    ELSE Append(rows, [description |-> desc, amount |-> amount,
                       created_at |-> created_at])

add_one_time_expense(rows, desc, amount, created_at) ==
    IF RowExists(rows, desc, Abs(amount), DatePart(created_at)) THEN rows
    ELSE InsertOrIgnore(rows, desc, Abs(amount), created_at)

(***************************************************************************)
(* auto_scan (POST /auto-scan with files)                                  *)
(***************************************************************************)
\* find_recurring_expenses(statements, day_window=2)
ScanDayWindow == 2

\* existing = {d for d, _ in budget_tool.get_monthly_expenses()}
Existing(monthly) == {m.description : m \in monthly}

\* [(d, a) for d, a in found if d not in existing] raises ValueError when an
\* element of found does not have exactly two components
UnpackRaises(found) ==
    \E k \in 1..Len(found) : Cardinality(DOMAIN found[k]) # 2

\* recurring_names = {d for d, _ in found}
RecurringNames(found) == {found[k].description : k \in 1..Len(found)}

\* for r in month: if r.amount < 0 and ... : add_one_time_expense(...)
RECURSIVE StoreMonth(_, _, _, _)
StoreMonth(rows, month, names, existing) ==
    IF month = <<>> THEN rows
    ELSE LET r == Head(month)
             next == IF /\ r.amount < 0
                        /\ r.description \notin names
                        /\ r.description \notin existing
                     THEN add_one_time_expense(rows, r.description,
                                               r.amount, r.date)
                     ELSE rows
         IN StoreMonth(next, Tail(month), names, existing)

\* for month in statements
RECURSIVE StoreOneTime(_, _, _, _)
StoreOneTime(rows, stmts, names, existing) ==
    IF stmts = <<>> THEN rows
    ELSE StoreOneTime(StoreMonth(rows, Head(stmts), names, existing),
                      Tail(stmts), names, existing)

\* the request: the rows of one_time_expenses after it, and whether it
\* ended in an unhandled exception
auto_scan(rows, monthly, stmts) ==
    LET found == find_recurring_expenses(stmts, DefaultTolerance, ScanDayWindow)
    IN IF UnpackRaises(found)
       THEN [rows |-> rows, response |-> "error"]
       ELSE [rows |-> StoreOneTime(rows, stmts, RecurringNames(found),
                                   Existing(monthly)),
             response |-> "ok"]

(***************************************************************************)
(* The web application with its store: the user posts the same statement   *)
(* files any number of times; one-time expenses are also added directly.   *)
(***************************************************************************)
MaxFiles == 3
MaxFileRows == 2

ScanTx ==
    { TransactionRecord(1, 1, 0, "Gym", -10),
      TransactionRecord(1, 2, 0, "Coffee", -5),
      TransactionRecord(1, 2, 0, "Coffee", -50),
      TransactionRecord(2, 9, 0, "Coffee", -5),
      TransactionRecord(1, 2, 0, "Tea", 5) }

ScanStatements == UNION {PeriodLists(ScanTx, n, MaxFileRows) : n \in 0..MaxFiles}

\* the direct calls of add_one_time_expense: (desc, amount, created_at)
DirectCalls ==
    { [desc |-> "Coffee", amount |-> -5,
       created_at |-> [month |-> 1, day |-> 2, hour |-> 0]],
      [desc |-> "Coffee", amount |-> 5,
       created_at |-> [month |-> 1, day |-> 2, hour |-> 0]],
      [desc |-> "Coffee", amount |-> -50,
       created_at |-> [month |-> 1, day |-> 2, hour |-> 0]],
      [desc |-> "Coffee", amount |-> -5,
       created_at |-> [month |-> 1, day |-> 2, hour |-> 12]] }

InitScan ==
    /\ upload \in ScanStatements
    /\ monthly_expenses \in {{}, {[description |-> "Coffee", amount |-> 5]}}
    /\ one_time_expenses = <<>>
    /\ response = "none"
    /\ added = <<>>
    /\ pc = "call"
    /\ PayoffIdle
    /\ RecurringIdle
    /\ LaterIdle

AutoScan ==
    LET out == auto_scan(one_time_expenses, monthly_expenses, upload)
    IN /\ one_time_expenses' = out.rows
       /\ response' = out.response
       /\ UNCHANGED <<upload, monthly_expenses, added, pc, payoffVars,
                      recurringVars, laterVars>>

AddOneTimeExpense(desc, amount, created_at) ==
    /\ one_time_expenses' =
           add_one_time_expense(one_time_expenses, desc, amount, created_at)
    /\ added' = <<[desc |-> desc, amount |-> amount,
                   created_at |-> created_at]>>
    /\ UNCHANGED <<upload, monthly_expenses, response, pc, payoffVars,
                   recurringVars, laterVars>>

NextScan ==
    \/ AutoScan
    \/ \E c \in DirectCalls :
           AddOneTimeExpense(c.desc, c.amount, c.created_at)

SpecScan == InitScan /\ [][NextScan]_vars

(***************************************************************************)
(* Claims about find_recurring_expenses.                                   *)
(***************************************************************************)
\* the later periods of the call
LaterPeriods == 2..Len(statements)

\* r repeats t: the same description up to case, a day-of-month within
\* day_window, an amount within |t.amount| * tolerance
Repeats(r, t) ==
    /\ lower(r.description) = lower(t.description)
    /\ Abs(r.date.day - t.date.day) <= day_window
    /\ Abs(r.amount - t.amount) * tolerance.den <= Abs(t.amount) * tolerance.num

\* every later period holds a transaction that repeats t
RepeatsEverywhere(t) ==
    \A p \in LaterPeriods :
        \E j \in 1..Len(statements[p]) : Repeats(statements[p][j], t)

\* C4: a first-period transaction that every later period repeats is
\* returned as a candidate (here: a candidate of its description up to case,
\* and with at least one later period), whatever else the first period holds.
C4_RepeatedChargeIsReported ==
    (Returned /\ Len(statements) >= 2)
        => \A i \in 1..Len(statements[1]) :
               RepeatsEverywhere(statements[1][i])
                   => \E k \in 1..Len(recurring) :
                          lower(recurring[k].description)
                              = lower(statements[1][i].description)

\* the sum of f[p] over the periods P, f a choice of one amount per period
RECURSIVE SumOver(_, _)
SumOver(f, P) ==
    IF P = {} THEN 0
    ELSE LET p == CHOOSE q \in P : TRUE IN f[p] + SumOver(f, P \ {p})

\* the choices of one repeating transaction's amount in each later period
MatchedAmounts(t) ==
    { f \in [LaterPeriods -> {x.amount : x \in DetectorTx}] :
        \A p \in LaterPeriods :
            \E j \in 1..Len(statements[p]) :
                /\ Repeats(statements[p][j], t)
                /\ statements[p][j].amount = f[p] }

\* C5: every candidate's amount is the absolute value of the mean of an
\* anchor's signed amount and one matched signed amount per later period,
\* hence never negative.
C5_AmountIsAbsoluteMean ==
    Returned =>
        \A k \in 1..Len(recurring) :
            /\ recurring[k].amount.den = Len(statements)
            /\ recurring[k].amount.num >= 0
            /\ \E i \in 1..Len(statements[1]) :
                   /\ statements[1][i].description = recurring[k].description
                   /\ \E f \in MatchedAmounts(statements[1][i]) :
                          recurring[k].amount.num
                              = Abs(statements[1][i].amount
                                    + SumOver(f, LaterPeriods))

\* C5's case: two periods of negative amounts only, and a candidate
C5_Witness ==
    /\ Returned
    /\ Len(statements) = 2
    /\ statements[2] # <<>>
    /\ \A p \in 1..2 : \A j \in 1..Len(statements[p]) :
           statements[p][j].amount < 0
    /\ recurring # <<>>
    /\ recurring[1].amount = [num |-> 60, den |-> 2]

\* two periods of one transaction each, same description, amounts within
\* tolerance
TwoSingles ==
    /\ Len(statements) = 2
    /\ Len(statements[1]) = 1
    /\ Len(statements[2]) = 1
    /\ lower(statements[1][1].description) = lower(statements[2][1].description)
    /\ Abs(statements[2][1].amount - statements[1][1].amount) * tolerance.den
           <= Abs(statements[1][1].amount) * tolerance.num

DayGap == Abs(statements[1][1].date.day - statements[2][1].date.day)

\* C6: for two such periods the charge is reported if and only if the days
\* of month differ by at most day_window; with the default day_window (0)
\* only an equal day of month is reported.
C6_DayWindowDecides ==
    (Returned /\ TwoSingles)
        => /\ (recurring # <<>>) <=> (DayGap <= day_window)
           /\ day_window = DefaultDayWindow
                  => ((recurring # <<>>) <=> (DayGap = 0))

\* C6's case: a charge one day later, reported under a window of one day
C6_Witness ==
    /\ Returned
    /\ TwoSingles
    /\ DayGap = 1
    /\ day_window = 1
    /\ Len(recurring) = 1

\* a single anchor of a non-zero amount a, and a later period that holds
\* only transactions of amount -a
SignFlips ==
    /\ Len(statements) >= 2
    /\ Len(statements[1]) = 1
    /\ statements[1][1].amount # 0
    /\ \E p \in LaterPeriods :
           /\ statements[p] # <<>>
           /\ \A j \in 1..Len(statements[p]) :
                  statements[p][j].amount = -statements[1][1].amount

\* C7 as stated: under every tolerance, a charge whose sign flips between
\* the periods is not reported.
C7_SignFlipNeverReported ==
    (Returned /\ SignFlips) => recurring = <<>>

\* C7 amended: under every tolerance below 2 (200 %), a charge whose sign
\* flips between the periods is not reported.
C7_SignFlipNotReportedBelowTwo ==
    (Returned /\ SignFlips /\ tolerance.num < 2 * tolerance.den)
        => recurring = <<>>

\* C7's case: the flipped charge has the anchor's description and a day
\* inside the window, so that only the amount keeps it from matching
C7_Witness ==
    /\ Returned
    /\ SignFlips
    /\ Len(statements) = 2
    /\ tolerance.num < 2 * tolerance.den
    /\ \A j \in 1..Len(statements[2]) :
           /\ lower(statements[2][j].description)
                  = lower(statements[1][1].description)
           /\ Abs(statements[2][j].date.day - statements[1][1].date.day)
                  <= day_window
    /\ recurring = <<>>

(***************************************************************************)
(* Claims about auto_scan and add_one_time_expense.                        *)
(***************************************************************************)
\* what the detector reports for the posted statements
Reported == find_recurring_expenses(upload, DefaultTolerance, ScanDayWindow)

\* the posted transactions, as (period, position) pairs
Posted == {pj \in (1..Len(upload)) \X (1..MaxFileRows) : pj[2] <= Len(upload[pj[1]])}

PostedTx(pj) == upload[pj[1]][pj[2]]

\* rows holds the one-time expense of transaction r: its description, its
\* absolute amount, its date
HoldsOneTime(rows, r) ==
    \E k \in 1..Len(rows) :
        /\ rows[k].description = r.description
        /\ rows[k].amount = Abs(r.amount)
        /\ DatePart(rows[k].created_at) = DatePart(r.date)

\* C8: whatever was posted, and whether or not the detector reports a
\* recurring charge, the auto-scan ends without error and has stored every
\* transaction of a negative amount whose description is neither reported
\* recurring nor a saved monthly expense.
C8_ScanStoresEveryOutflow ==
    response # "none" =>
        /\ response = "ok"
        /\ \A pj \in Posted :
               ( /\ PostedTx(pj).amount < 0
                 /\ PostedTx(pj).description \notin RecurringNames(Reported)
                 /\ PostedTx(pj).description \notin Existing(monthly_expenses) )
                   => HoldsOneTime(one_time_expenses, PostedTx(pj))

\* the description of r took part in a recurring match, compared as the
\* detector compares descriptions
TookPartInMatch(r) ==
    \E k \in 1..Len(Reported) :
        lower(Reported[k].description) = lower(r.description)

\* the transaction at pj is also in another posted period (the same
\* description, amount and date)
InSeveralPeriods(pj) ==
    \E qj \in Posted : qj[1] # pj[1] /\ PostedTx(qj) = PostedTx(pj)

\* the rows a step has added
NewRows == SubSeq(one_time_expenses', Len(one_time_expenses) + 1,
                  Len(one_time_expenses'))

\* C9: the auto-scan never stores as a one-time expense a transaction whose
\* description took part in a recurring match or that is in more than one
\* of the scanned periods.
C9_ScanSkipsRepeatedCharges ==
    [][ AutoScan =>
          \A pj \in Posted :
              (TookPartInMatch(PostedTx(pj)) \/ InSeveralPeriods(pj))
                  => ~HoldsOneTime(NewRows, PostedTx(pj)) ]_vars

\* the number of rows of the triple (description, |amount|, calendar date)
TripleCount(rows, desc, amount, created_at) ==
    Cardinality({k \in 1..Len(rows) :
                    /\ rows[k].description = desc
                    /\ rows[k].amount = Abs(amount)
                    /\ DatePart(rows[k].created_at) = DatePart(created_at)})

\* C10: after a call of add_one_time_expense, and after any number of
\* further calls and auto-scans, the store holds exactly one row of the
\* call's triple (description, |amount|, calendar date), and the same call
\* once more leaves one_time_expenses unchanged.
C10_ExactlyOneRowPerTriple ==
    \A n \in 1..Len(added) :
        /\ TripleCount(one_time_expenses, added[n].desc, added[n].amount,
                       added[n].created_at) = 1
        /\ add_one_time_expense(one_time_expenses, added[n].desc,
                                added[n].amount, added[n].created_at)
               = one_time_expenses

\* the part of C10 that the code keeps: no triple is ever stored twice
OneTimeTriplesDistinct ==
    \A k \in 1..Len(one_time_expenses) :
        TripleCount(one_time_expenses, one_time_expenses[k].description,
                    one_time_expenses[k].amount,
                    one_time_expenses[k].created_at) = 1

(***************************************************************************)
(* The calls of account_balance_after_months that are explored: the        *)
(* arguments of the amortization part, and a horizon in months.            *)
(***************************************************************************)
MaxHorizon == 3

InitProjection ==
    /\ args \in PayoffArgs
    /\ horizon \in 0..MaxHorizon
    /\ future = 0
    /\ ret = NoneResult
    /\ pc = "call"
    /\ RecurringIdle
    /\ ScanIdle
    /\ ParseIdle
    /\ LedgerIdle
    /\ ForecastIdle
    /\ SubscriptionIdle
    /\ FormIdle

AccountBalanceAfterMonths ==
    /\ pc = "call"
    /\ future' = account_balance_after_months(args.balance,
                     PrincipalPayment(args), args.apr, horizon)
    /\ pc' = "return"
    /\ UNCHANGED <<args, ret, horizon, recurringVars, scanVars, parseVars,
                   ledgerVars, forecastVars, subscriptionVars, form>>

NextProjection == AccountBalanceAfterMonths

SpecProjection == InitProjection /\ [][NextProjection]_vars

(***************************************************************************)
(* Claims about account_balance_after_months and the payoff horizon.       *)
(***************************************************************************)
\* C13: for apr = 0 and every integer months >= 0,
\* account_balance_after_months returns
\* balance - (payment - escrow - insurance - tax) * months, which is
\* balance - payment * months when escrow, insurance and tax are zero.
C13_ZeroAprIsLinear ==
    (Returned /\ args.apr = 0)
        => /\ future = args.balance
                 - (args.payment - args.escrow - args.insurance - args.tax)
                   * horizon
           /\ (args.escrow = 0 /\ args.insurance = 0 /\ args.tax = 0)
                  => future = args.balance - args.payment * horizon

\* C13's case: several months at apr = 0 with escrow, insurance and tax
\* taken out of a payment that still reduces the balance
C13_Witness ==
    /\ Returned
    /\ args.apr = 0
    /\ horizon >= 2
    /\ args.escrow > 0 /\ args.insurance > 0 /\ args.tax > 0
    /\ future < args.balance

\* C14: when months_to_payoff returns a number for principal_payment > 0
\* and apr > 0, that number is never smaller than the number it returns for
\* the same balance and payments with apr = 0.
C14_InterestNeverShortens ==
    (Returned /\ PrincipalPayment(args) > 0 /\ args.apr > 0 /\ ~ret.none)
        => ret.months >= months_to_payoff([args EXCEPT !.apr = 0]).months

(***************************************************************************)
(* parse_statement_csv, from the rows csv.reader yields (a row is the      *)
(* sequence of its cells).  A cell is a string; the parts of str, datetime *)
(* and float the parser uses are tables over the cells that are drawn.     *)
(* Dates carry month, day and hour (every drawn date is of one year);      *)
(* amounts are carried in hundredths of the currency unit.                 *)
(***************************************************************************)
\* c.lower().strip()
lower_strip(c) ==
    CASE c \in {"Date", "date"} -> "date"
      [] c \in {"Description", "DESCRIPTION"} -> "description"
      [] c \in {"Amount", " Amount "} -> "amount"
      [] c = "Posting Date" -> "posting date"
      [] c = "Transaction Date" -> "transaction date"
      [] c = "Transaction Category" -> "transaction category"
      [] c = "Memo" -> "memo"
      [] c = "Coffee" -> "coffee"
      [] c = "Tea" -> "tea"
      [] c = " Rent " -> "rent"
      [] c = " Drinks " -> "drinks"
      [] OTHER -> c

\* s.strip()
strip(s) ==
    CASE s = " Rent " -> "Rent"
      [] s = " Drinks " -> "Drinks"
      [] s = " Amount " -> "Amount"
      [] OTHER -> s

\* "category" in h
ContainsCategory(h) == h \in {"category", "transaction category"}

NoDate == [ok |-> FALSE, date |-> [month |-> 0, day |-> 0, hour |-> 0]]
SomeDate(m, d) == [ok |-> TRUE, date |-> [month |-> m, day |-> d, hour |-> 0]]

\* datetime.fromisoformat(s); a ValueError is NoDate
fromisoformat(s) ==
    CASE s = "2024-01-05" -> SomeDate(1, 5)
      [] s = "20240206" -> SomeDate(2, 6)
      [] OTHER -> NoDate

\* datetime.strptime(s, f) for the formats tried after fromisoformat
strptime(s, f) ==
    CASE s = "2024-01-05" /\ f = "%Y-%m-%d" -> SomeDate(1, 5)
      [] s = "20240206" /\ f = "%Y%m%d" -> SomeDate(2, 6)
      [] s = "01/05/2024" /\ f = "%m/%d/%Y" -> SomeDate(1, 5)
      [] OTHER -> NoDate

\* the loop over the four formats: the first that parses
ParseDate(s) ==
    IF fromisoformat(s).ok THEN fromisoformat(s)
    ELSE IF strptime(s, "%Y-%m-%d").ok THEN strptime(s, "%Y-%m-%d")
    ELSE IF strptime(s, "%Y%m%d").ok THEN strptime(s, "%Y%m%d")
    ELSE strptime(s, "%m/%d/%Y")

\* s.replace("$", "").replace(",", "")
StripMoneySigns(s) == IF s = "$1,200.00" THEN "1200.00" ELSE s

\* float(s); a ValueError is ok = FALSE
float(s) ==
    CASE s = "-4.50" -> [ok |-> TRUE, value |-> -450]
      [] s = "5" -> [ok |-> TRUE, value |-> 500]
      [] s = "1200.00" -> [ok |-> TRUE, value |-> 120000]
      [] OTHER -> [ok |-> FALSE, value |-> 0]

\* header = [c.lower().strip() for c in rows[0]]
HeaderOf(row) == [i \in 1..Len(row) |-> lower_strip(row[i])]

\* has_header = "amount" in header and "description" in header
has_header(header) ==
    /\ \E i \in 1..Len(header) : header[i] = "amount"
    /\ \E i \in 1..Len(header) : header[i] = "description"

\* the first h of the header with "category" in h, "" when there is none
category_key(header) ==
    LET at == {i \in 1..Len(header) : ContainsCategory(header[i])}
    IN IF at = {} THEN ""
       ELSE header[CHOOSE i \in at : \A j \in at : i <= j]

\* the last, not the first, of the four date names that is in the header
date_key_last(header) ==
    LET names == <<"date", "posting date", "effective date",
                   "transaction date">>
        at == {k \in 1..Len(names) :
                   \E i \in 1..Len(header) : header[i] = names[k]}
    IN IF at = {} THEN ""
       ELSE names[CHOOSE k \in at : \A j \in at : j <= k]

\* the first of the four date names that is in the header, "" when none is
date_key(header) ==
    LET names == <<"date", "posting date", "effective date",
                   "transaction date">>
        at == {k \in 1..Len(names) :
                   \E i \in 1..Len(header) : header[i] = names[k]}
    IN IF at = {} THEN ""
       ELSE names[CHOOSE k \in at : \A j \in at : k <= j]

\* mapping.get(key, default) for mapping = {header[i]: row[i] for i in
\* range(len(header))}: of two columns of one name the dict keeps the last
mapping_get(header, row, key, default) ==
    LET at == {i \in 1..Len(header) : header[i] = key}
    IN IF at = {} THEN default
       ELSE row[CHOOSE i \in at : \A j \in at : j <= i]

\* the strings of one data row: date_str, desc, amt_str, category
RowFields(header, row) ==
    IF has_header(header)
    THEN [date_str |-> IF date_key(header) # ""
                       THEN mapping_get(header, row, date_key(header), row[1])
                       ELSE row[1],
          desc |-> mapping_get(header, row, "description", row[2]),
          amt_str |-> mapping_get(header, row, "amount", row[3]),
          category |-> IF category_key(header) # ""
                       THEN mapping_get(header, row, category_key(header),
                                        NoCategory)
                       ELSE NoCategory]
    ELSE [date_str |-> row[1], desc |-> row[2], amt_str |-> row[3],
          category |-> NoCategory]

\* the loop with each record put ahead of the ones gathered before it
RECURSIVE ParseRows_newest_first(_, _, _, _)
ParseRows_newest_first(rows, header, i, records) ==
    IF i > Len(rows) THEN [raised |-> "none", records |-> records]
    ELSE LET row == rows[i]
             f == RowFields(header, row)
             dt == ParseDate(f.date_str)
             amt == float(StripMoneySigns(f.amt_str))
         IN IF Len(row) < 3
            THEN ParseRows_newest_first(rows, header, i + 1, records)
            ELSE IF has_header(header) /\ Len(row) < Len(header)
            THEN [raised |-> "IndexError", records |-> <<>>]
            ELSE IF ~dt.ok
            THEN ParseRows_newest_first(rows, header, i + 1, records)
            ELSE IF ~amt.ok THEN [raised |-> "ValueError", records |-> <<>>]
            ELSE ParseRows_newest_first(rows, header, i + 1,
                     <<[date |-> dt.date,
                        description |-> strip(f.desc),
                        amount |-> amt.value,
                        category |-> IF f.category = NoCategory
                                     THEN NoCategory
                                     ELSE strip(f.category)]>> \o records)

\* the for loop over rows[start:], from row i on; an exception leaves the
\* loop and the function
RECURSIVE ParseRows(_, _, _, _)
ParseRows(rows, header, i, records) ==
    IF i > Len(rows) THEN [raised |-> "none", records |-> records]
    ELSE LET row == rows[i]
             f == RowFields(header, row)
             dt == ParseDate(f.date_str)
             amt == float(StripMoneySigns(f.amt_str))
         IN IF Len(row) < 3 THEN ParseRows(rows, header, i + 1, records)
            ELSE IF has_header(header) /\ Len(row) < Len(header)
            THEN [raised |-> "IndexError", records |-> <<>>]
            ELSE IF ~dt.ok THEN ParseRows(rows, header, i + 1, records)
            ELSE IF ~amt.ok THEN [raised |-> "ValueError", records |-> <<>>]
            ELSE ParseRows(rows, header, i + 1,
                     Append(records,
                            [date |-> dt.date,
                             description |-> strip(f.desc),
                             amount |-> amt.value,
                             category |-> IF f.category = NoCategory
                                          THEN NoCategory
                                          ELSE strip(f.category)]))

parse_statement_csv(rows) ==
    IF rows = <<>> THEN [raised |-> "none", records |-> <<>>]
    ELSE LET header == HeaderOf(rows[1])
             start == IF has_header(header) THEN 2 ELSE 1
         IN ParseRows(rows, header, start, <<>>)

(***************************************************************************)
(* The inputs of parse_statement_csv that are explored.                    *)
(***************************************************************************)
MaxCsvRows == 3

CsvRows ==
    { <<"Date", "Description", "Amount">>,
      <<"Transaction Date", " Amount ", "Posting Date", "DESCRIPTION">>,
      <<"Posting Date", "Description", "Amount", "Transaction Category">>,
      <<"Date", "Memo", "Amount">>,
      <<"2024-01-05", "Coffee", "-4.50">>,
      <<"01/05/2024", " Rent ", "$1,200.00">>,
      <<"2024-01-05", "Coffee">>,
      <<"soon", "Coffee", "-4.50">>,
      <<"2024-01-05", "Coffee", "n/a">>,
      <<"soon", "-4.50", "20240206", "Tea">>,
      <<"2024-01-05", "Coffee", "5", " Drinks ">>,
      <<"20240206", "Tea", "5">> }

InitParse ==
    /\ csv_rows \in SeqsUpTo(CsvRows, MaxCsvRows)
    /\ parsed = [raised |-> "none", records |-> <<>>]
    /\ pc = "call"
    /\ PayoffIdle
    /\ RecurringIdle
    /\ ScanIdle
    /\ ProjectionIdle
    /\ LedgerIdle
    /\ ForecastIdle
    /\ SubscriptionIdle
    /\ FormIdle

ParseStatementCsv ==
    /\ pc = "call"
    /\ parsed' = parse_statement_csv(csv_rows)
    /\ pc' = "return"
    /\ UNCHANGED <<csv_rows, payoffVars, recurringVars, scanVars,
                   projectionVars, ledgerVars, forecastVars,
                   subscriptionVars, form>>

NextParse == ParseStatementCsv

SpecParse == InitParse /\ [][NextParse]_vars

(***************************************************************************)
(* Claims about parse_statement_csv.                                       *)
(***************************************************************************)
\* the first row; an input without rows has none
FirstRow == IF csv_rows = <<>> THEN <<>> ELSE csv_rows[1]

\* the trimmed lower-cased cells of the first row
FirstRowCells == {lower_strip(FirstRow[j]) : j \in 1..Len(FirstRow)}

FirstRowIsHeader == {"amount", "description"} \subseteq FirstRowCells

\* the column of the first row that is named so, else the fallback column
ColumnNamed(name, fallback) ==
    LET at == {j \in 1..Len(FirstRow) : lower_strip(FirstRow[j]) = name}
    IN IF at = {} THEN fallback ELSE CHOOSE j \in at : TRUE

\* the date column: the first present of the four names, else column 0
\* (columns count from 1 here)
DateColumn ==
    IF "date" \in FirstRowCells THEN ColumnNamed("date", 1)
    ELSE IF "posting date" \in FirstRowCells
    THEN ColumnNamed("posting date", 1)
    ELSE IF "effective date" \in FirstRowCells
    THEN ColumnNamed("effective date", 1)
    ELSE ColumnNamed("transaction date", 1)

\* where a data row keeps its date, description and amount
ColumnsRead ==
    IF FirstRowIsHeader
    THEN [date |-> DateColumn, description |-> ColumnNamed("description", 2),
          amount |-> ColumnNamed("amount", 3)]
    ELSE [date |-> 1, description |-> 2, amount |-> 3]

\* the rows after the header, if there is one
DataRowIndexes == (IF FirstRowIsHeader THEN 2 ELSE 1)..Len(csv_rows)

\* a data row the parser can read: three columns or more, no fewer than
\* the header, a date and an amount that parse
WellFormed(i) ==
    LET row == csv_rows[i]
    IN /\ Len(row) >= 3
       /\ FirstRowIsHeader => Len(row) >= Len(FirstRow)
       /\ ParseDate(row[ColumnsRead.date]).ok
       /\ float(StripMoneySigns(row[ColumnsRead.amount])).ok

WellFormedRows == {i \in DataRowIndexes : WellFormed(i)}

\* the k-th well-formed data row
KthWellFormed(k) ==
    CHOOSE i \in WellFormedRows :
        Cardinality({j \in WellFormedRows : j < i}) = k - 1

\* C11: parse_statement_csv returns a list and never raises because of a
\* data row: a row of fewer than 3 columns, of fewer columns than the
\* header, with an unparsable date or an unparsable amount is left out and
\* every well-formed row is still returned (none: the empty list).
C11_BadRowsAreOmitted ==
    Returned =>
        /\ parsed.raised = "none"
        /\ Len(parsed.records) = Cardinality(WellFormedRows)

\* C12: the first row is a header, with no record of its own, exactly when
\* its trimmed lower-cased cells include "amount" and "description"; under
\* a header each record takes description and amount from the columns so
\* named and its date from the first present of date, posting date,
\* effective date, transaction date (else column 0); without one every
\* row, the first included, is read as date, description, amount.
C12_HeaderDecidesColumns ==
    (Returned /\ parsed.raised = "none") =>
        /\ Len(parsed.records) = Cardinality(WellFormedRows)
        /\ \A k \in 1..Len(parsed.records) :
               LET row == csv_rows[KthWellFormed(k)]
                   r == parsed.records[k]
               IN /\ r.date = ParseDate(row[ColumnsRead.date]).date
                  /\ r.description = strip(row[ColumnsRead.description])
                  /\ r.amount =
                        float(StripMoneySigns(row[ColumnsRead.amount])).value

\* C12's case: a header whose columns are permuted and which names both a
\* transaction date (first column) and a posting date (third column), a
\* row of two columns that is left out and a row read through the header
C12_Witness ==
    /\ Returned
    /\ parsed.raised = "none"
    /\ Len(csv_rows) = 3
    /\ csv_rows[1] = <<"Transaction Date", " Amount ", "Posting Date",
                       "DESCRIPTION">>
    /\ csv_rows[2] = <<"2024-01-05", "Coffee">>
    /\ csv_rows[3] = <<"soon", "-4.50", "20240206", "Tea">>
    /\ parsed.records = <<[date |-> [month |-> 2, day |-> 6, hour |-> 0],
                           description |-> "Tea", amount |-> -450,
                           category |-> NoCategory]>>

(***************************************************************************)
(* The accounts and transactions tables, and the forecasts.                *)
(*                                                                         *)
(* Balances, payments and amounts are in sub-units (Scale to the unit) and *)
(* apr in 1/AprDen percent, as in the amortization part.  A Bank account's *)
(* share is a quotient of two balances; it and the balance projected with  *)
(* it are kept as fractions in lowest terms, so the float rounding of the  *)
(* division is left out.                                                   *)
(***************************************************************************)
RECURSIVE GCD(_, _)
GCD(a, b) == IF b = 0 THEN a ELSE GCD(b, a % b)

\* n / d in lowest terms with a positive denominator (d # 0)
Frac(n, d) ==
    LET g == GCD(Abs(n), Abs(d))
        s == IF d < 0 THEN -1 ELSE 1
    IN [num |-> (s * n) \div g, den |-> (s * d) \div g]

\* the account names that are stored, in the order of ORDER BY name
NamesInOrder == <<"Card", "Checking", "Loan", "Savings">>

\* SELECT ... FROM accounts ORDER BY name
get_all_accounts(accts) ==
    LET stored == SelectSeq(NamesInOrder, LAMBDA n : n \in DOMAIN accts)
    IN [i \in 1..Len(stored) |->
           [name |-> stored[i], balance |-> accts[stored[i]].balance,
            monthly_payment |-> accts[stored[i]].monthly_payment,
            type |-> accts[stored[i]].type, apr |-> accts[stored[i]].apr,
            escrow |-> accts[stored[i]].escrow,
            insurance |-> accts[stored[i]].insurance,
            tax |-> accts[stored[i]].tax]]

\* SUM(amount) of the transactions of one type
TypeTotal(txs, type) ==
    LET of_type == SelectSeq(txs, LAMBDA t : t.type = type)
    IN Sum([i \in 1..Len(of_type) |-> of_type[i].amount])

\* calc_totals: income, expense and net
calc_totals(txs) ==
    [income |-> TypeTotal(txs, "income"),
     expense |-> TypeTotal(txs, "expense"),
     net |-> TypeTotal(txs, "income") - TypeTotal(txs, "expense")]

\* sum(r["balance"] for r in accounts if r["type"] == "Bank")
BankRows(rows) == SelectSeq(rows, LAMBDA r : r.type = "Bank")
total_bank_balance(rows) ==
    Sum([i \in 1..Len(BankRows(rows)) |-> BankRows(rows)[i].balance])

\* bank_balance_after_months: total_bank_balance() + net * months
bank_balance_after_months(rows, txs, months) ==
    total_bank_balance(rows) + calc_totals(txs).net * months

\* months_until_bank_negative with int(bank / -net) + 1 as the month count
months_until_bank_negative_floor(rows, txs) ==
    LET net == calc_totals(txs).net
        bank == total_bank_balance(rows)
    IN IF net >= 0 THEN NoneResult
       ELSE IF bank <= 0 THEN Months(0)
       ELSE Months(bank \div (-net) + 1)

\* months_until_bank_negative: None, 0 or math.ceil(bank / -net)
months_until_bank_negative(rows, txs) ==
    LET net == calc_totals(txs).net
        bank == total_bank_balance(rows)
    IN IF net >= 0 THEN NoneResult
       ELSE IF bank <= 0 THEN Months(0)
       ELSE Months(Ceiling(bank, -net))

\* a Bank account's share with 1 in place of 1 / max(bank_count, 1)
BankShare_whole(row, rows) ==
    IF total_bank_balance(rows) # 0
    THEN Frac(row.balance, total_bank_balance(rows))
    ELSE Frac(1, 1)

\* share = balance / total_bank if total_bank else 1 / max(bank_count, 1)
BankShare(row, rows) ==
    IF total_bank_balance(rows) # 0
    THEN Frac(row.balance, total_bank_balance(rows))
    ELSE Frac(1, IF Len(BankRows(rows)) > 1 THEN Len(BankRows(rows)) ELSE 1)

\* account_balance_after_months on the columns of one row
RowBalanceAfterMonths(row, months) ==
    account_balance_after_months(row.balance,
        row.monthly_payment - row.escrow - row.insurance - row.tax,
        row.apr, months)

\* future of one row in forecast_accounts and show_totals
CliFuture(row, rows, net, months) ==
    IF row.type = "Bank"
    THEN LET share == BankShare(row, rows)
         IN Frac(row.balance * share.den + net * months * share.num,
                 share.den)
    ELSE Frac(RowBalanceAfterMonths(row, months), 1)

\* the printed line of one row: name, type, future and change
ForecastLine(row, projected) ==
    [name |-> row.name, type |-> row.type, future |-> projected,
     change |-> Frac(projected.num - row.balance * projected.den,
                     projected.den)]

\* an asset is whatever shows a gain
IsAsset_by_change(line) == line.change.num >= 0

\* row["type"] in ("Bank", "Crypto Wallet", "Stock Account")
IsAsset(line) == line.type \in {"Bank", "Crypto Wallet", "Stock Account"}

\* forecast_accounts: the lines of the two printed lists (none without
\* accounts, where "No accounts" is printed)
forecast_accounts(rows, txs, months) ==
    LET net == calc_totals(txs).net
        lines == [i \in 1..Len(rows) |->
                     ForecastLine(rows[i],
                                  CliFuture(rows[i], rows, net, months))]
    IN [called |-> TRUE,
        assets |-> SelectSeq(lines, IsAsset),
        debts |-> SelectSeq(lines, LAMBDA l : ~IsAsset(l))]

\* show_totals: the warning and the forecast lines
show_totals(rows, txs, months) ==
    LET net == calc_totals(txs).net
    IN [called |-> TRUE,
        warn |-> months_until_bank_negative(rows, txs),
        lines |-> [i \in 1..Len(rows) |->
                      ForecastLine(rows[i],
                                   CliFuture(rows[i], rows, net, months))]]

\* get_account_forecast of the web application
get_account_forecast(rows, months) ==
    LET lines == [i \in 1..Len(rows) |->
                     ForecastLine(rows[i],
                         Frac(RowBalanceAfterMonths(rows[i], months), 1))]
    IN [called |-> TRUE,
        assets |-> SelectSeq(lines, IsAsset),
        debts |-> SelectSeq(lines, LAMBDA l : ~IsAsset(l))]

(***************************************************************************)
(* The ledgers that are explored.                                          *)
(***************************************************************************)
AccountRow(type, balance, payment, apr, escrow) ==
    [balance |-> balance, monthly_payment |-> payment, type |-> type,
     apr |-> apr, escrow |-> escrow, insurance |-> 0, tax |-> 0]

AccountRows ==
    { AccountRow("Bank", 2 * Scale, 0, 0, 0),
      AccountRow("Bank", -2 * Scale, 0, 0, 0),
      AccountRow("Bank", Scale, Half, 0, 0),
      AccountRow("Crypto Wallet", 3 * Scale, 0, 0, 0),
      AccountRow("Stock Account", 3 * Scale, Scale, 0, 0),
      AccountRow("Credit Card", 100 * Scale, 10 * Scale, 20 * AprDen, 0),
      AccountRow("Mortgage", 1000 * Scale, 100 * Scale, AprDen, Half) }

Ledgers ==
    UNION {[names -> AccountRows] :
               names \in SUBSET {"Card", "Checking", "Savings"}}

Transaction(category, type, amount) ==
    [category |-> category, type |-> type, amount |-> amount]

TransactionLists ==
    { <<>>,
      <<Transaction("Job", "income", 3 * Scale)>>,
      <<Transaction("Food", "expense", Half)>>,
      <<Transaction("Job", "income", Scale),
        Transaction("Food", "expense", Scale + Half),
        Transaction("Food", "expense", Scale)>> }

\* the variables of the parts before the ledger, while a forecast runs
EarlierIdle == PayoffIdle /\ RecurringIdle /\ ScanIdle /\ ParseIdle
earlierVars == <<payoffVars, recurringVars, scanVars, parseVars>>

InitForecast ==
    /\ accounts \in Ledgers
    /\ transactions \in TransactionLists
    /\ categories = {transactions[i].category : i \in 1..Len(transactions)}
    /\ NoGoals
    /\ horizon \in 0..MaxHorizon
    /\ future = 0
    /\ ForecastIdle
    /\ pc = "call"
    /\ EarlierIdle
    /\ SubscriptionIdle
    /\ FormIdle

ForecastAccounts ==
    /\ cli_forecast' = forecast_accounts(get_all_accounts(accounts),
                                         transactions, horizon)
    /\ UNCHANGED <<totals_shown, web_forecast, ledgerVars, projectionVars,
                   pc, earlierVars, subscriptionVars, form>>

ShowTotals ==
    /\ totals_shown' = show_totals(get_all_accounts(accounts), transactions,
                                   horizon)
    /\ UNCHANGED <<cli_forecast, web_forecast, ledgerVars, projectionVars,
                   pc, earlierVars, subscriptionVars, form>>

GetAccountForecast ==
    /\ web_forecast' = get_account_forecast(get_all_accounts(accounts),
                                            horizon)
    /\ UNCHANGED <<cli_forecast, totals_shown, ledgerVars, projectionVars,
                   pc, earlierVars, subscriptionVars, form>>

NextForecast == ForecastAccounts \/ ShowTotals \/ GetAccountForecast

SpecForecast == InitForecast /\ [][NextForecast]_vars

(***************************************************************************)
(* Claims about the forecasts.                                             *)
(***************************************************************************)
StoredRows == get_all_accounts(accounts)
Net == calc_totals(transactions).net

\* the stored row of a name
StoredRow(name) ==
    StoredRows[CHOOSE i \in 1..Len(StoredRows) : StoredRows[i].name = name]

\* the lines of a forecast with two lists
ListedLines(f) == f.assets \o f.debts

\* balance + net * months * share for a Bank account,
\* account_balance_after_months for every other type
FutureByType(row) ==
    IF row.type = "Bank"
    THEN LET share == BankShare(row, StoredRows)
         IN Frac(row.balance * share.den + Net * horizon * share.num,
                 share.den)
    ELSE Frac(RowBalanceAfterMonths(row, horizon), 1)

LinesByType(lines) ==
    \A i \in 1..Len(lines) :
        lines[i].future = FutureByType(StoredRow(lines[i].name))

\* C15: in forecast_accounts, show_totals and get_account_forecast a Bank
\* account is projected as balance + net * months * share and never by the
\* payment and interest formula, every other type by
\* account_balance_after_months; the CLI and the web forecast give one
\* account the same future balance.
C15_OneFormulaPerType ==
    /\ cli_forecast.called => LinesByType(ListedLines(cli_forecast))
    /\ totals_shown.called => LinesByType(totals_shown.lines)
    /\ web_forecast.called => LinesByType(ListedLines(web_forecast))
    /\ (cli_forecast.called /\ web_forecast.called) =>
           \A i \in 1..Len(ListedLines(cli_forecast)) :
               \A j \in 1..Len(ListedLines(web_forecast)) :
                   (ListedLines(cli_forecast)[i].name
                        = ListedLines(web_forecast)[j].name)
                   => (ListedLines(cli_forecast)[i].future
                           = ListedLines(web_forecast)[j].future)

\* a + b for two fractions
FracAdd(a, b) == Frac(a.num * b.den + b.num * a.den, a.den * b.den)

RECURSIVE FracSum(_)
FracSum(fs) ==
    IF fs = <<>> THEN Frac(0, 1) ELSE FracAdd(Head(fs), FracSum(Tail(fs)))

StoredBankRows == BankRows(StoredRows)
BankTotal == total_bank_balance(StoredRows)

\* the shares of the Bank accounts, in row order
BankShares ==
    [i \in 1..Len(StoredBankRows) |-> BankShare(StoredBankRows[i], StoredRows)]

\* the printed lines of the Bank accounts
BankLines(lines) == SelectSeq(lines, LAMBDA l : l.type = "Bank")

\* the changes of the Bank lines add up to net * months and their futures
\* to bank_balance_after_months(months)
BankLinesAddUp(lines) ==
    LET bank == BankLines(lines)
    IN /\ FracSum([i \in 1..Len(bank) |-> bank[i].change])
              = Frac(Net * horizon, 1)
       /\ FracSum([i \in 1..Len(bank) |-> bank[i].future])
              = Frac(bank_balance_after_months(StoredRows, transactions,
                                               horizon), 1)

\* C16: in forecast_accounts and show_totals with a Bank account, a Bank
\* account's share is balance / (sum of the Bank balances) when the sum is
\* not zero and 1 / (number of Bank accounts) when it is; the shares sum to
\* 1, the projected Bank changes to net * months and the projected Bank
\* balances to bank_balance_after_months(months).
C16_BankSharesSumToOne ==
    (StoredBankRows # <<>>) =>
        /\ \A i \in 1..Len(StoredBankRows) :
               IF BankTotal # 0
               THEN BankShares[i].num * BankTotal
                        = StoredBankRows[i].balance * BankShares[i].den
               ELSE BankShares[i].num * Len(StoredBankRows)
                        = BankShares[i].den
        /\ FracSum(BankShares) = Frac(1, 1)
        /\ cli_forecast.called => BankLinesAddUp(cli_forecast.assets)
        /\ totals_shown.called => BankLinesAddUp(totals_shown.lines)

\* C16's case: two Bank accounts whose balances cancel, a net flow and a
\* horizon that are not zero, and both CLI forecasts printed
C16_Witness ==
    /\ Len(StoredBankRows) = 2
    /\ BankTotal = 0
    /\ StoredBankRows[1].balance # 0
    /\ Net # 0
    /\ horizon >= 2
    /\ cli_forecast.called
    /\ totals_shown.called

\* the position of a name among the rows supplied
PositionOf(name) ==
    CHOOSE i \in 1..Len(StoredRows) : StoredRows[i].name = name

\* the lines of one list follow the order of the rows supplied
KeepsOrder(lines) ==
    \A i \in 1..Len(lines) : \A j \in 1..Len(lines) :
        i < j => PositionOf(lines[i].name) < PositionOf(lines[j].name)

\* every account is in exactly one list, in assets exactly for the three
\* asset types, and each list keeps the order of the rows
Partitioned(f) ==
    /\ \A n \in DOMAIN accounts :
           /\ Cardinality({i \in 1..Len(ListedLines(f)) :
                               ListedLines(f)[i].name = n}) = 1
           /\ (\E i \in 1..Len(f.assets) : f.assets[i].name = n)
                  <=> accounts[n].type \in {"Bank", "Crypto Wallet",
                                            "Stock Account"}
    /\ \A i \in 1..Len(ListedLines(f)) :
           ListedLines(f)[i].name \in DOMAIN accounts
    /\ KeepsOrder(f.assets)
    /\ KeepsOrder(f.debts)

\* C17: a forecast places every account in exactly one of its two lists,
\* in assets if and only if its type is Bank, Crypto Wallet or Stock
\* Account and otherwise in debts, whatever the sign of its projected
\* change; within a list the accounts keep the order they were supplied in.
C17_AssetsByTypeOnly ==
    /\ cli_forecast.called => Partitioned(cli_forecast)
    /\ web_forecast.called => Partitioned(web_forecast)

\* C17's case: an asset whose projected balance falls, listed with two
\* other accounts of which one is a debt
C17_Witness ==
    /\ cli_forecast.called /\ web_forecast.called
    /\ Len(StoredRows) = 3
    /\ horizon >= 1
    /\ \E i \in 1..Len(web_forecast.assets) :
           web_forecast.assets[i].change.num < 0
    /\ \E i \in 1..Len(cli_forecast.assets) :
           cli_forecast.assets[i].change.num < 0
    /\ Len(cli_forecast.assets) = 2
    /\ Len(cli_forecast.debts) = 1

\* C19: months_until_bank_negative returns none when net >= 0, 0 when
\* net < 0 and the total Bank balance is <= 0, and otherwise the least
\* m >= 1 with bank_balance_after_months(m) <= 0.
C19_FirstMonthAtOrBelowZero ==
    totals_shown.called =>
        LET warn == totals_shown.warn
        IN IF Net >= 0 THEN warn = NoneResult
           ELSE IF BankTotal <= 0 THEN warn = Months(0)
           ELSE /\ ~warn.none
                /\ warn.months >= 1
                /\ bank_balance_after_months(StoredRows, transactions,
                                             warn.months) <= 0
                /\ \A m \in 1..(warn.months - 1) :
                       bank_balance_after_months(StoredRows, transactions,
                                                 m) > 0

\* C19's case: a positive Bank total that a negative net does not divide
C19_Witness ==
    /\ totals_shown.called
    /\ Net < 0
    /\ BankTotal > 0
    /\ BankTotal % (-Net) # 0
    /\ totals_shown.warn.months >= 2

(***************************************************************************)
(* Subscriptions and the daily transaction sync, as the command line       *)
(* reaches them: set_subscription, generate_transactions_from_plaid (which *)
(* records the sync itself) and the question can_generate_transactions.    *)
(* The clock counts half days; a timestamp is the clock's value when it    *)
(* was written.                                                            *)
(***************************************************************************)
\* timedelta(days=1), in half days
Day == 2
MaxClock == 5

\* tier.lower()
tier_lower(tier) == IF tier = "PREMIUM" THEN "premium" ELSE tier

\* set_subscription that writes a fresh row over the stored one
set_subscription_fresh_row(subs, username, tier, t) ==
    IF tier_lower(tier) \notin {"free", "premium"}
    THEN [raised |-> "ValueError", subs |-> subs]
    ELSE [raised |-> "none",
          subs |-> [subs EXCEPT ![username] =
                       [stored |-> TRUE, tier |-> tier_lower(tier),
                        start_date |-> t, synced |-> FALSE,
                        last_sync |-> 0]]]

\* set_subscription: ValueError for an unknown tier; else the row is
\* inserted with start_date = now, or its tier alone is updated
set_subscription(subs, username, tier, t) ==
    IF tier_lower(tier) \notin {"free", "premium"}
    THEN [raised |-> "ValueError", subs |-> subs]
    ELSE [raised |-> "none",
          subs |-> IF subs[username].stored
                   THEN [subs EXCEPT ![username].tier = tier_lower(tier)]
                   ELSE [subs EXCEPT ![username] =
                            [stored |-> TRUE, tier |-> tier_lower(tier),
                             start_date |-> t, synced |-> FALSE,
                             last_sync |-> 0]]]

\* can_generate_transactions with the age of the last sync left out
can_generate_transactions_any_age(subs, username, t) ==
    subs[username].stored /\ subs[username].tier = "premium"

\* can_generate_transactions
can_generate_transactions(subs, username, t) ==
    LET row == subs[username]
    IN IF ~row.stored \/ row.tier # "premium" THEN FALSE
       ELSE IF ~row.synced THEN TRUE
       ELSE t - row.last_sync >= Day

\* record_transaction_sync: UPDATE subscriptions SET last_sync = now
record_transaction_sync(subs, username, t) ==
    IF subs[username].stored
    THEN [subs EXCEPT ![username].synced = TRUE, ![username].last_sync = t]
    ELSE subs

\* generate_transactions_from_plaid
generate_transactions_from_plaid(subs, username, t) ==
    IF ~can_generate_transactions(subs, username, t)
    THEN [raised |-> "RuntimeError", subs |-> subs]
    ELSE [raised |-> "none",
          subs |-> record_transaction_sync(subs, username, t)]

Tiers == {"free", "premium", "PREMIUM", "gold"}

Call(op, username, subs, result) ==
    [op |-> op, user |-> username, at |-> now,
     before |-> subscriptions[username], after |-> subs[username],
     result |-> result]

\* the variables of the other parts while the subscription functions run
SubscriptionOthersIdle ==
    /\ pc = "call"
    /\ EarlierIdle
    /\ ProjectionIdle
    /\ LedgerIdle
    /\ ForecastIdle
    /\ FormIdle
subscriptionOthers ==
    <<pc, earlierVars, projectionVars, ledgerVars, forecastVars, form,
      callers>>

InitSubscription ==
    /\ SubscriptionIdle
    /\ SubscriptionOthersIdle

SetSubscription(username, tier) ==
    LET out == set_subscription(subscriptions, username, tier, now)
    IN /\ subscriptions' = out.subs
       /\ last_call' = Call("set_subscription", username, out.subs,
                            out.raised)
       /\ UNCHANGED <<now, subscriptionOthers>>

CanGenerateTransactions(username) ==
    /\ last_call' =
           Call("can_generate_transactions", username, subscriptions,
                IF can_generate_transactions(subscriptions, username, now)
                THEN "True" ELSE "False")
    /\ UNCHANGED <<subscriptions, now, subscriptionOthers>>

GenerateTransactionsFromPlaid(username) ==
    LET out == generate_transactions_from_plaid(subscriptions, username, now)
    IN /\ subscriptions' = out.subs
       /\ last_call' = Call("generate_transactions_from_plaid", username,
                            out.subs, out.raised)
       /\ UNCHANGED <<now, subscriptionOthers>>

\* half a day passes
Tick ==
    /\ now < MaxClock
    /\ now' = now + 1
    /\ UNCHANGED <<subscriptions, last_call, subscriptionOthers>>

NextSubscription ==
    \/ \E u \in Users, tier \in Tiers : SetSubscription(u, tier)
    \/ \E u \in Users : CanGenerateTransactions(u)
    \/ \E u \in Users : GenerateTransactionsFromPlaid(u)
    \/ Tick

SpecSubscription == InitSubscription /\ [][NextSubscription]_vars

(***************************************************************************)
(* Claims about the daily transaction sync.                                *)
(***************************************************************************)
\* premium, and no sync recorded or the last one at least a day old
MaySync(row, t) ==
    /\ row.stored
    /\ row.tier = "premium"
    /\ ~row.synced \/ t - row.last_sync >= Day

AnsweredCorrectly ==
    (last_call.op = "can_generate_transactions")
        => ((last_call.result = "True")
                <=> MaySync(last_call.before, last_call.at))

\* a generate call made less than a day after the last recorded sync
\* raises RuntimeError and leaves last_sync as it was
EarlyCallRaises ==
    (/\ last_call.op = "generate_transactions_from_plaid"
     /\ last_call.before.synced
     /\ last_call.at - last_call.before.last_sync < Day)
        => /\ last_call.result = "RuntimeError"
           /\ last_call.after = last_call.before

\* C18, as stated: can_generate_transactions(user) is true if and only if
\* the tier is premium and no sync is recorded or the last one is at least
\* a day old; after a successful generate_transactions_from_plaid every
\* further call within less than a day raises RuntimeError and leaves
\* last_sync unchanged, and a call at least a day later succeeds again.
C18_DailySyncGate ==
    /\ AnsweredCorrectly
    /\ EarlyCallRaises
    /\ (/\ last_call.op = "generate_transactions_from_plaid"
        /\ last_call.before.synced
        /\ last_call.at - last_call.before.last_sync >= Day)
           => last_call.result = "none"

\* C18, amended: as above, but the call at least a day later succeeds if
\* the user's tier is premium at that call, and then records the new sync.
C18_DailySyncGateWhilePremium ==
    /\ AnsweredCorrectly
    /\ EarlyCallRaises
    /\ (/\ last_call.op = "generate_transactions_from_plaid"
        /\ last_call.before.synced
        /\ last_call.at - last_call.before.last_sync >= Day
        /\ last_call.before.tier = "premium")
           => /\ last_call.result = "none"
              /\ last_call.after.last_sync = last_call.at

\* C18's case: a sync that succeeds a day or more after the one before it,
\* for a user who was refused in between
C18_Witness ==
    /\ last_call.op = "generate_transactions_from_plaid"
    /\ last_call.before.synced
    /\ last_call.at - last_call.before.last_sync >= Day
    /\ last_call.result = "none"
    /\ last_call.after.last_sync = last_call.at
    /\ last_call.after.last_sync > last_call.before.last_sync

(***************************************************************************)
(* The account-edit form of the web application.  A form carries the       *)
(* names ticked for deletion and, for each row i of the edit table, the    *)
(* fields old_i, name_i, balance_i, payment_i and type_i; a balance that   *)
(* is missing or not a number is None (given = FALSE).                     *)
(***************************************************************************)
\* the accounts, transactions and categories tables as one value
Tables(accts, txs, cats) ==
    [accounts |-> accts, transactions |-> txs, categories |-> cats]

\* DELETE FROM accounts WHERE name = ?
delete_account(db, name) ==
    [db EXCEPT !.accounts =
        [n \in (DOMAIN db.accounts) \ {name} |-> db.accounts[n]]]

\* add_category then add_transaction(name, amount, "expense")
AddExpense(db, name, amount) ==
    [db EXCEPT !.categories = db.categories \cup {name},
               !.transactions =
                   Append(db.transactions,
                          Transaction(name, "expense", Abs(amount)))]

\* set_account: INSERT ... ON CONFLICT(name) DO UPDATE of every column,
\* and a Mortgage Payment expense for a mortgage with a payment
set_account(db, name, row) ==
    LET stored == [db EXCEPT !.accounts =
                      [n \in (DOMAIN db.accounts) \cup {name} |->
                          IF n = name THEN row ELSE db.accounts[n]]]
    IN IF row.type = "Mortgage" /\ row.monthly_payment # 0
       THEN AddExpense(stored, "Mortgage Payment", row.monthly_payment)
       ELSE stored

\* SELECT apr, escrow, insurance, tax FROM accounts WHERE name = old;
\* zeros when there is no such row
KeptColumns(db, old) ==
    IF old \in DOMAIN db.accounts THEN db.accounts[old]
    ELSE AccountRow("Other", 0, 0, 0, 0)

\* one pass of the while loop, for the form row r
EditRow(db, deletes, r) ==
    IF r.old \in deletes THEN db
    ELSE IF r.name = "" \/ ~r.balance.given THEN db
    ELSE LET kept == KeptColumns(db, r.old)
             set == set_account(db, r.name,
                        [balance |-> r.balance.value,
                         monthly_payment |-> r.payment, type |-> r.type,
                         apr |-> kept.apr, escrow |-> kept.escrow,
                         insurance |-> kept.insurance, tax |-> kept.tax])
         IN IF r.name # r.old THEN delete_account(set, r.old) ELSE set

RECURSIVE EditRows(_, _, _, _)
EditRows(db, deletes, rows, i) ==
    IF i > Len(rows) THEN db
    ELSE EditRows(EditRow(db, deletes, rows[i]), deletes, rows, i + 1)

RECURSIVE DeleteAll(_, _)
DeleteAll(db, names) ==
    IF names = {} THEN db
    ELSE LET d == CHOOSE n \in names : TRUE
         IN DeleteAll(delete_account(db, d), names \ {d})

\* update_accounts_route: the deletions, then the rows in order
update_accounts_route(db, f) ==
    EditRows(DeleteAll(db, f.deletes), f.deletes, f.rows, 1)

(***************************************************************************)
(* The forms that are explored: the edit table of the accounts stored, one *)
(* row for each in name order, posted with any of them ticked for          *)
(* deletion.                                                               *)
(***************************************************************************)
EmptyTables == Tables(<<>>, <<>>, {})

EditedRows ==
    { AccountRow("Credit Card", 800 * Scale, 100 * Scale, 20 * AprDen, 0),
      AccountRow("Mortgage", 1000 * Scale, 100 * Scale, AprDen, Half) }

\* the tables after set_account for each of some names
RECURSIVE TablesAfter(_, _)
TablesAfter(db, rows) ==
    IF DOMAIN rows = {} THEN db
    ELSE LET n == CHOOSE m \in DOMAIN rows : TRUE
         IN TablesAfter(set_account(db, n, rows[n]),
                        [m \in (DOMAIN rows) \ {n} |-> rows[m]])

EditedTables ==
    { TablesAfter(EmptyTables, rows) :
          rows \in UNION {[names -> EditedRows] :
                              names \in SUBSET {"Card", "Savings"}} }

NoBalance == [given |-> FALSE, value |-> 0]
Balance(v) == [given |-> TRUE, value |-> v]

\* the rows a user can post for the account stored as `old`
FormRows(old) ==
    [old : {old}, name : {"Card", "Loan", "Savings", ""},
     balance : {NoBalance, Balance(5 * Scale)}, payment : {0, Scale},
     type : {"Bank", "Mortgage"}]

Forms(accts) ==
    LET stored == SelectSeq(NamesInOrder, LAMBDA n : n \in DOMAIN accts)
    IN { f \in [deletes : SUBSET DOMAIN accts,
                rows : [1..Len(stored) -> UNION {FormRows(n) :
                                                     n \in DOMAIN accts}]] :
             \A i \in 1..Len(stored) : f.rows[i].old = stored[i] }

InitEdit ==
    /\ \E db \in EditedTables :
           /\ accounts = db.accounts
           /\ transactions = db.transactions
           /\ categories = db.categories
    /\ NoGoals
    /\ form \in Forms(accounts)
    /\ pc = "call"
    /\ EarlierIdle
    /\ ProjectionIdle
    /\ ForecastIdle
    /\ SubscriptionIdle

UpdateAccounts ==
    /\ pc = "call"
    /\ LET db == update_accounts_route(
                     Tables(accounts, transactions, categories), form)
       IN /\ accounts' = db.accounts
          /\ transactions' = db.transactions
          /\ categories' = db.categories
    /\ pc' = "return"
    /\ UNCHANGED <<form, goals, last_delete, earlierVars, projectionVars,
                   forecastVars, subscriptionVars>>

NextEdit == UpdateAccounts

SpecEdit == InitEdit /\ [][NextEdit]_vars

(***************************************************************************)
(* Claims about the account-edit form.                                     *)
(***************************************************************************)
\* the form rows the route applies: not ticked for deletion, with a name
\* and a balance
Applied(i) ==
    /\ form.rows[i].old \notin form.deletes
    /\ form.rows[i].name # ""
    /\ form.rows[i].balance.given

\* the account of form row i after the post keeps the apr, escrow,
\* insurance and tax it had before, under its new name if it was renamed
KeepsRates(i) ==
    LET r == form.rows[i]
    IN /\ r.name \in DOMAIN accounts'
       /\ accounts'[r.name].apr = accounts[r.old].apr
       /\ accounts'[r.name].escrow = accounts[r.old].escrow
       /\ accounts'[r.name].insurance = accounts[r.old].insurance
       /\ accounts'[r.name].tax = accounts[r.old].tax

\* C20: posting the account-edit form for an existing account changes only
\* its name, balance, payment and type: its stored apr, escrow, insurance
\* and tax are unchanged afterwards, also when the row renames it, and an
\* account listed for deletion in the form is absent afterwards even
\* though the form carries an edit row for it.
C20_EditKeepsRates ==
    [][UpdateAccounts =>
          /\ \A i \in 1..Len(form.rows) : Applied(i) => KeepsRates(i)
          /\ \A d \in form.deletes : d \notin DOMAIN accounts']_vars

(***************************************************************************)
(* Further claims about months_to_payoff and                               *)
(* account_balance_after_months.                                           *)
(***************************************************************************)
\* floor(a * n / d) for a >= 0, n >= 0, d > 0, without a wide product
FloorMulDiv(a, n, d) == (a \div d) * n + ((a % d) * n) \div d

\* principal_payment <= |balance| * r, r = apr / 12 / 100, for apr > 0
InterestCoversPayment(a) ==
    PrincipalPayment(a) <= FloorMulDiv(Abs(a.balance), a.apr, 12 * 100 * AprDen)

\* the balance after k months of the call's simulation
BalanceAfter(k) ==
    account_balance_after_months(Abs(args.balance), PrincipalPayment(args),
                                 args.apr, k)

\* the months of the simulation that are compared step by step
StepsCompared == 1..(IF ret.months < MaxHorizon THEN ret.months ELSE MaxHorizon)

\* C21: for apr > 0, principal_payment > 0 and |balance| > 0,
\* months_to_payoff returns None exactly when principal_payment <=
\* |balance| * r, that is when the first month's balance is not below the
\* starting balance; otherwise the balance falls at every step and a number
\* is returned.
C21_NeverIffInterestCoversPayment ==
    (Returned /\ args.apr > 0 /\ PrincipalPayment(args) > 0
              /\ args.balance # 0)
        => /\ ret.none <=> InterestCoversPayment(args)
           /\ ret.none <=> BalanceAfter(1) >= Abs(args.balance)
           /\ ~ret.none => \A k \in StepsCompared :
                               BalanceAfter(k) < BalanceAfter(k - 1)

\* C21's case: the payment equals the first month's interest exactly
C21_Witness ==
    /\ Returned
    /\ args.apr > 0
    /\ PrincipalPayment(args) > 0
    /\ args.balance # 0
    /\ Interest(Abs(args.balance), args.apr) = PrincipalPayment(args)
    /\ InterestCoversPayment(args)
    /\ ret.none

\* C25: months_to_payoff never returns a negative number of months, and
\* for balance = 0 with principal_payment > 0, below 1 included, it returns
\* 0 for every apr.
C25_NeverNegativeMonths ==
    Returned
        => /\ ~ret.none => ret.months >= 0
           /\ (args.balance = 0 /\ PrincipalPayment(args) > 0)
                  => ret = Months(0)

\* one application of balance <- balance * (1 + r) - principal_payment
OneMonth(balance) ==
    balance + Interest(balance, args.apr) - PrincipalPayment(args)

\* n applications, one after the other
RECURSIVE Applications(_, _)
Applications(balance, n) ==
    IF n = 0 THEN balance ELSE Applications(OneMonth(balance), n - 1)

\* the projection of the call's account over k months from a balance
ProjectedFrom(balance, k) ==
    account_balance_after_months(balance, PrincipalPayment(args), args.apr, k)

\* C22: account_balance_after_months applies
\* balance <- balance * (1 + r) - principal_payment exactly `months` times,
\* with no floor and no early stop, so the result for m + n months is the
\* result of projecting n months from the m-month result, also when that
\* result is zero or negative.
C22_ProjectionsCompose ==
    Returned
        => /\ future = Applications(args.balance, horizon)
           /\ \A m \in 0..horizon :
                  future = ProjectedFrom(ProjectedFrom(args.balance, m),
                                         horizon - m)

\* C22's case: a debt that is paid off before the horizon and projected on
C22_Witness ==
    /\ Returned
    /\ args.balance > 0
    /\ args.apr > 0
    /\ \E m \in 1..(horizon - 1) :
           /\ ProjectedFrom(args.balance, m) <= 0
           /\ future < ProjectedFrom(args.balance, m)

(***************************************************************************)
(* Further claims about find_recurring_expenses.                           *)
(***************************************************************************)
\* the first transaction of period p, in the period's order, that repeats t
FirstRepeat(p, t) ==
    CHOOSE j \in 1..Len(statements[p]) :
        /\ Repeats(statements[p][j], t)
        /\ \A i \in 1..(j - 1) : ~Repeats(statements[p][i], t)

\* the (lower-cased description, day-of-month) pair of a first-period row
AnchorKey(i) ==
    <<lower(statements[1][i].description), statements[1][i].date.day>>

\* the first-period rows that are the first of their pair and repeated in
\* every later period
Anchored ==
    { i \in 1..Len(statements[1]) :
        /\ \A h \in 1..(i - 1) : AnchorKey(h) # AnchorKey(i)
        /\ RepeatsEverywhere(statements[1][i]) }

\* the k-th of them in first-period order
KthAnchored(k) ==
    CHOOSE i \in Anchored : Cardinality({h \in Anchored : h < i}) = k - 1

\* the anchor's amount plus the first repeating amount of each later period
FirstRepeatsSum(t) ==
    t.amount + SumOver([p \in LaterPeriods |->
                           statements[p][FirstRepeat(p, t)].amount],
                       LaterPeriods)

\* C23: in each later period the first transaction, in the period's own
\* order, that satisfies the three conditions is the one whose amount
\* enters the mean, also when a later one is closer to the anchor.
C23_FirstMatchEntersMean ==
    (Returned /\ statements # <<>>)
        => /\ Len(recurring) = Cardinality(Anchored)
           /\ \A k \in 1..Len(recurring) :
                  LET base == statements[1][KthAnchored(k)]
                  IN recurring[k].amount
                         = [num |-> Abs(FirstRepeatsSum(base)),
                            den |-> Len(statements)]

\* C23's case: the later period holds a near match ahead of an exact one
C23_Witness ==
    /\ Returned
    /\ Len(statements) = 2
    /\ Len(statements[1]) = 1
    /\ Len(statements[2]) = 2
    /\ Repeats(statements[2][1], statements[1][1])
    /\ statements[2][1].amount # statements[1][1].amount
    /\ statements[2][1].date.day # statements[1][1].date.day
    /\ statements[2][2] = statements[1][1]
    /\ Len(recurring) = 1
    /\ recurring[1].amount.num
           = Abs(statements[1][1].amount + statements[2][1].amount)

\* the ways of tracing the candidates back to first-period rows, in order
Origins ==
    { g \in [1..Len(recurring) -> 1..Len(statements[1])] :
        \A k \in 1..Len(recurring) : \A h \in 1..(k - 1) : g[h] < g[k] }

\* C26: every candidate stems from a first-period transaction that every
\* later period repeats under the three conditions; the candidates are in
\* first-period order, at most one per (lower-cased description,
\* day-of-month) pair; without periods the result is empty.
C26_CandidatesAreSound ==
    Returned
        => /\ statements = <<>> => recurring = <<>>
           /\ statements # <<>> =>
                  \E g \in Origins :
                      /\ \A k \in 1..Len(recurring) :
                             /\ recurring[k].description
                                    = statements[1][g[k]].description
                             /\ recurring[k].category
                                    = statements[1][g[k]].category
                             /\ RepeatsEverywhere(statements[1][g[k]])
                      /\ \A k \in 1..Len(recurring) : \A h \in 1..(k - 1) :
                             AnchorKey(g[h]) # AnchorKey(g[k])

\* C26's case: the first period holds two rows of one pair, the later
\* period repeats the charge
C26_Witness ==
    /\ Returned
    /\ Len(statements) = 2
    /\ Len(statements[1]) >= 2
    /\ \E i, h \in 1..Len(statements[1]) : i # h /\ AnchorKey(i) = AnchorKey(h)
    /\ statements[2] # <<>>
    /\ recurring # <<>>

(***************************************************************************)
(* Further claims about parse_statement_csv.                               *)
(***************************************************************************)
\* record r is read from data row i
ReadFrom(r, i) ==
    LET row == csv_rows[i]
    IN /\ WellFormed(i)
       /\ r.date = ParseDate(row[ColumnsRead.date]).date
       /\ r.description = strip(row[ColumnsRead.description])
       /\ r.amount = float(StripMoneySigns(row[ColumnsRead.amount])).value

\* the ways of tracing the records back to data rows, in row order
RecordOrigins ==
    { g \in [1..Len(parsed.records) -> DataRowIndexes] :
        \A k \in 1..Len(parsed.records) : \A h \in 1..(k - 1) : g[h] < g[k] }

\* a date as a number that grows with the calendar
DayNumber(d) == d.month * 100 + d.day

\* C24: the records returned are in input row order and form a subsequence
\* of the data rows: each retained row yields exactly one record and the
\* order of two retained rows is kept, whatever their dates.
C24_RecordsKeepRowOrder ==
    (Returned /\ parsed.raised = "none")
        => \E g \in RecordOrigins :
               /\ \A k \in 1..Len(parsed.records) :
                      ReadFrom(parsed.records[k], g[k])
               /\ {g[k] : k \in 1..Len(parsed.records)} = WellFormedRows

\* C24's case: a row with a later date ahead of rows with an earlier one,
\* and a row that is left out between them
C24_Witness ==
    /\ Returned
    /\ parsed.raised = "none"
    /\ Len(csv_rows) = 3
    /\ ~WellFormed(2)
    /\ Len(parsed.records) = 2
    /\ DayNumber(parsed.records[1].date) > DayNumber(parsed.records[2].date)
    /\ parsed.records[1].description # parsed.records[2].description

(***************************************************************************)
(* Further claims about add_one_time_expense.                              *)
(***************************************************************************)
\* C27: add_one_time_expense adds a row whenever no stored row has the
\* call's triple (description, |amount|, calendar date), so after the call
\* a row of the triple is stored; in particular two charges of the same
\* description and timestamp but different amounts are both stored.
C27_DistinctTriplesBothStored ==
    \A n \in 1..Len(added) :
        RowExists(one_time_expenses, added[n].desc, Abs(added[n].amount),
                  DatePart(added[n].created_at))

(***************************************************************************)
(* Further claims about the subscriptions.                                 *)
(***************************************************************************)
\* what a call set_subscription(u, tier) must do to the table
SetSubscriptionFrame(u, tier) ==
    /\ tier_lower(tier) \notin {"free", "premium"}
           => /\ last_call'.result = "ValueError"
              /\ subscriptions' = subscriptions
    /\ (tier_lower(tier) \in {"free", "premium"} /\ subscriptions[u].stored)
           => /\ last_call'.result = "none"
              /\ subscriptions' =
                     [subscriptions EXCEPT ![u].tier = tier_lower(tier)]

\* C28: set_subscription on a user who has a subscription changes only the
\* tier, start_date and last_sync keep their values, so after premium ->
\* free -> premium a sync within a day of the last recorded one is still
\* refused; with a tier other than free or premium it raises ValueError and
\* changes nothing.
C28_SetSubscriptionKeepsSync ==
    /\ []EarlyCallRaises
    /\ [][\A u \in Users, tier \in Tiers :
              SetSubscription(u, tier) => SetSubscriptionFrame(u, tier)]_vars

\* C28's case: a user who synced as premium and was set to free is set to
\* premium again within a day of the sync, which stays recorded
C28_Witness ==
    /\ last_call.op = "set_subscription"
    /\ last_call.result = "none"
    /\ last_call.before.synced
    /\ last_call.before.tier = "free"
    /\ last_call.after.tier = "premium"
    /\ last_call.at - last_call.before.last_sync < Day
    /\ last_call.after.last_sync = last_call.before.last_sync
    /\ last_call.after.start_date = last_call.before.start_date
    /\ last_call.after.start_date < last_call.at
    /\ ~can_generate_transactions(subscriptions, last_call.user, now)

(***************************************************************************)
(* Two processes that call generate_transactions_from_plaid for the        *)
(* default user at a time (two command-line runs on one database file).    *)
(* A call is two statements on connections of their own: the SELECT of     *)
(* can_generate_transactions, compared with the clock, and the UPDATE of   *)
(* record_transaction_sync; no transaction or lock spans the two.          *)
(***************************************************************************)
\* if not can_generate_transactions(username): raise RuntimeError
CheckEligibility(c) ==
    /\ callers[c].pc = "start"
    /\ callers' =
           [callers EXCEPT ![c] =
               IF can_generate_transactions(subscriptions, "default", now)
               THEN [pc |-> "checked", result |-> "pending", at |-> 0]
               ELSE [pc |-> "done", result |-> "RuntimeError", at |-> 0]]
    /\ UNCHANGED <<subscriptions, now, last_call, pc, earlierVars,
                   projectionVars, ledgerVars, forecastVars, form>>

\* record_transaction_sync(username), and the return
RecordSync(c) ==
    /\ callers[c].pc = "checked"
    /\ subscriptions' = record_transaction_sync(subscriptions, "default", now)
    /\ callers' = [callers EXCEPT ![c] =
                      [pc |-> "done", result |-> "none", at |-> now]]
    /\ UNCHANGED <<now, last_call, pc, earlierVars, projectionVars,
                   ledgerVars, forecastVars, form>>

NextConcurrent ==
    \/ \E tier \in {"free", "premium"} : SetSubscription("default", tier)
    \/ Tick
    \/ \E c \in Callers : CheckEligibility(c)
    \/ \E c \in Callers : RecordSync(c)

SpecConcurrent == InitSubscription /\ [][NextConcurrent]_vars

\* C29: under every interleaving of two concurrent
\* generate_transactions_from_plaid calls for the same premium user, at
\* most one of them succeeds within any one-day window.
C29_OneSyncPerDay ==
    \A c, d \in Callers :
        (/\ c # d
         /\ callers[c].result = "none"
         /\ callers[d].result = "none")
            => Abs(callers[c].at - callers[d].at) >= Day

(***************************************************************************)
(* Categories, transactions and goals, as the command line reaches them.   *)
(* transactions.category_id and goals.category_id reference categories(id) *)
(* and every connection runs PRAGMA foreign_keys=ON; a row refers to its   *)
(* category by name here, the id being in one-to-one relation with it.     *)
(***************************************************************************)
Store(cats, txs, gls) ==
    [categories |-> cats, transactions |-> txs, goals |-> gls]

\* add_category: the IntegrityError of UNIQUE(name) is caught
add_category(db, name) ==
    [db EXCEPT !.categories = db.categories \cup {name}]

\* add_transaction: the ValueError of an unknown category is caught
add_transaction(db, name, amount, trans_type) ==
    IF name \notin db.categories THEN db
    ELSE [db EXCEPT !.transactions =
             Append(db.transactions,
                    Transaction(name, trans_type, Abs(amount)))]

\* set_goal: INSERT ... ON CONFLICT(category_id, user_id) DO UPDATE SET
\* amount; the ValueError of an unknown category is caught
set_goal(db, category, amount, user) ==
    IF category \notin db.categories THEN db
    ELSE [db EXCEPT !.goals =
             {g \in db.goals : g.category # category \/ g.user # user}
                 \cup {[category |-> category, user |-> user,
                        amount |-> amount]}]

\* SelectSeq(txs, category # name)
RECURSIVE WithoutCategory(_, _)
WithoutCategory(txs, name) ==
    IF txs = <<>> THEN <<>>
    ELSE IF Head(txs).category = name THEN WithoutCategory(Tail(txs), name)
    ELSE <<Head(txs)>> \o WithoutCategory(Tail(txs), name)

\* delete_category: DELETE FROM transactions, DELETE FROM categories,
\* commit.  A goal of the category makes the second DELETE fail with
\* sqlite3.IntegrityError (FOREIGN KEY constraint failed); the exception
\* leaves through `finally: conn.close()`, which discards the uncommitted
\* first DELETE.
delete_category(db, name) ==
    IF name \notin db.categories THEN [raised |-> "none", db |-> db]
    ELSE IF \E g \in db.goals : g.category = name
    THEN [raised |-> "IntegrityError", db |-> db]
    ELSE [raised |-> "none",
          db |-> [db EXCEPT
                     !.transactions = WithoutCategory(db.transactions, name),
                     !.categories = db.categories \ {name}]]

CategoryNames == {"Food", "Job"}
GoalAmounts == {Scale, 100 * Scale}
MaxTransactions == 2

categoryOthers ==
    <<accounts, pc, earlierVars, projectionVars, forecastVars,
      subscriptionVars, form>>

InitCategories ==
    /\ LedgerIdle
    /\ pc = "call"
    /\ EarlierIdle
    /\ ProjectionIdle
    /\ ForecastIdle
    /\ SubscriptionIdle
    /\ FormIdle

Stored == Store(categories, transactions, goals)

AddCategory(name) ==
    /\ categories' = add_category(Stored, name).categories
    /\ UNCHANGED <<transactions, goals, last_delete, categoryOthers>>

AddTransaction(name, amount, trans_type) ==
    /\ Len(transactions) < MaxTransactions
    /\ transactions' =
           add_transaction(Stored, name, amount, trans_type).transactions
    /\ UNCHANGED <<categories, goals, last_delete, categoryOthers>>

SetGoal(category, amount) ==
    /\ goals' = set_goal(Stored, category, amount, "default").goals
    /\ UNCHANGED <<categories, transactions, last_delete, categoryOthers>>

DeleteCategory(name) ==
    LET out == delete_category(Stored, name)
    IN /\ categories' = out.db.categories
       /\ transactions' = out.db.transactions
       /\ goals' = out.db.goals
       /\ last_delete' = [name |-> name, raised |-> out.raised]
       /\ UNCHANGED categoryOthers

NextCategories ==
    \/ \E name \in CategoryNames : AddCategory(name)
    \/ \E name \in CategoryNames, amount \in {-Half, Scale},
          trans_type \in {"income", "expense"} :
           AddTransaction(name, amount, trans_type)
    \/ \E name \in CategoryNames, amount \in GoalAmounts :
           SetGoal(name, amount)
    \/ \E name \in CategoryNames : DeleteCategory(name)

SpecCategories == InitCategories /\ [][NextCategories]_vars

\* C30: after any sequence of add_category, add_transaction and set_goal,
\* delete_category(name) on an existing category completes without error
\* and leaves neither the category nor a transaction of it in the store,
\* also when a goal has been set for the category.
C30_DeleteCategoryCompletes ==
    [][\A name \in CategoryNames :
           (DeleteCategory(name) /\ name \in categories)
               => /\ last_delete'.raised = "none"
                  /\ name \notin categories'
                  /\ \A i \in 1..Len(transactions') :
                         transactions'[i].category # name]_vars

====
